---- MODULE Spec2Model ----
(***************************************************************************)
(* WeightedSet (src/weightedset/_weighted_set.py): a dictionary from key   *)
(* to float weight with add, *=, /=, clamp, copy, keys, max_weight and     *)
(* update.                                                                 *)
(*                                                                         *)
(* Floats are modelled by a small binary floating-point format with the    *)
(* behaviour of IEEE-754 doubles: a two-bit significand, round to nearest  *)
(* with ties to even, gradual underflow to zero, overflow to infinity and  *)
(* a NaN.  A finite value is held as a count of halves (the integer n      *)
(* stands for n/2), so 2 is the float 1.0.                                 *)
(*                                                                         *)
(* A Python dict keeps insertion order, and keys() sorts stably over it,   *)
(* so a dictionary is a sequence of <<key, weight>> items.  WeightedSet    *)
(* instances hold a reference to their dictionary object: weights[i] is    *)
(* the identity of the dict `_weights` of instance i refers to and         *)
(* dicts[id] is that dict's contents.                                      *)
(***************************************************************************)
EXTENDS Integers, Sequences, FiniteSets, TLC

VARIABLES weights, dicts, last

vars == <<weights, dicts, last>>

\* Largest binary exponent of the float format.
MaxExp == 0

\* Longest argument list given to update().
MaxOthers == 2

\* add(key, weight=1): the float 1.0, in halves.
DefaultWeight == 2

Insts == {1, 2}
Keys == {"a", "b", "c"}
PairKeys == {"a", "b"}
NotASet == 0

--------------------------------------------------------------------------
(* Floating point                                                          *)

RECURSIVE Pow2(_)
Pow2(e) == IF e = 0 THEN 1 ELSE 2 * Pow2(e - 1)

MaxFinite == 3 * Pow2(MaxExp)
Inf == MaxFinite + 1
NaN == MaxFinite + 2

\* The finite non-negative floats: 0, the subnormal 1, and m * 2^e, m in 2..3.
Rep == {0, 1} \cup {m * Pow2(e) : m \in {2, 3}, e \in 0..MaxExp}

\* The first value past MaxFinite that an unbounded exponent would give.
Over == 4 * Pow2(MaxExp)

\* The last significand bit of a grid value is 0.
IsEven(n) == n = 0 \/ \E e \in 0..(MaxExp + 1) : n = 2 * Pow2(e)

SetMax(S) == CHOOSE x \in S : \A y \in S : y <= x
SetMin(S) == CHOOSE x \in S : \A y \in S : x <= y

\* p/q (p >= 0, q > 0) rounded to the nearest float, ties to even; a result
\* that rounds past MaxFinite is infinite.
Round(p, q) ==
    IF p >= Over * q THEN Inf
    ELSE LET grid == Rep \cup {Over}
             lo == SetMax({r \in grid : r * q <= p})
             hi == SetMin({r \in grid : r * q >= p})
             r == IF lo = hi THEN lo
                  ELSE IF 2 * p < (lo + hi) * q THEN lo
                  ELSE IF 2 * p > (lo + hi) * q THEN hi
                  ELSE IF IsEven(lo) THEN lo ELSE hi
         IN  IF r = Over THEN Inf ELSE r

IsFinite(x) == x # Inf /\ x # NaN

\* Comparisons are false whenever an operand is NaN.
FLt(x, y) == x # NaN /\ y # NaN /\ x < y
FGt(x, y) == FLt(y, x)
FGe(x, y) == x # NaN /\ y # NaN /\ x >= y
FEq(x, y) == x # NaN /\ y # NaN /\ x = y

\* x + y for non-negative x and y.
FAdd(x, y) ==
    IF x = NaN \/ y = NaN THEN NaN
    ELSE IF x = Inf \/ y = Inf THEN Inf
    ELSE Round(x + y, 1)

\* x * y for non-negative x and y.
FMul(x, y) ==
    IF x = NaN \/ y = NaN THEN NaN
    ELSE IF x = Inf \/ y = Inf THEN (IF x = 0 \/ y = 0 THEN NaN ELSE Inf)
    ELSE Round(x * y, 2)

\* x / y for non-negative x and positive y.
FDiv(x, y) ==
    IF x = NaN \/ y = NaN THEN NaN
    ELSE IF x = Inf THEN (IF y = Inf THEN NaN ELSE Inf)
    ELSE IF y = Inf THEN 0
    ELSE Round(2 * x, y)

\* `new_weight in (math.inf, math.nan)`: a tuple member matches by identity
\* or by ==.  Infinity matches by ==.  A NaN never compares equal, and the
\* product or quotient is a new float object, never the object math.nan.
InInfNan(new_weight) == FEq(new_weight, Inf)

--------------------------------------------------------------------------
(* Dictionaries: sequences of <<key, weight>> in insertion order           *)

DictKeys(d) == {d[i][1] : i \in DOMAIN d}

\* key in d
HasKey(d, key) == \E i \in DOMAIN d : d[i][1] = key

IndexOf(d, key) == CHOOSE i \in DOMAIN d : d[i][1] = key

\* d[key]
GetItem(d, key) == d[IndexOf(d, key)][2]

\* d[key] = weight
SetItem(d, key, weight) ==
    IF HasKey(d, key)
    THEN [d EXCEPT ![IndexOf(d, key)] = <<key, weight>>]
    ELSE Append(d, <<key, weight>>)

--------------------------------------------------------------------------
(* The methods of WeightedSet, as functions of the dictionary              *)

OK == "none"

\* The loop of __imul__ over self._weights.items(); scaled is scaled_weights.
RECURSIVE MulLoop(_, _, _)
MulLoop(items, scale, scaled) ==
    IF items = <<>> THEN [err |-> OK, d |-> scaled]
    ELSE LET key == Head(items)[1]
             new_weight == FMul(Head(items)[2], scale)
         IN  IF FEq(new_weight, 0) THEN MulLoop(Tail(items), scale, scaled)
             ELSE IF InInfNan(new_weight) THEN [err |-> "OverflowError", d |-> scaled]
             ELSE MulLoop(Tail(items), scale, SetItem(scaled, key, new_weight))

\* __imul__: the error raised and the dictionary self._weights is bound to.
IMulOp(d, scale) ==
    IF FLt(scale, 0) THEN [err |-> "ValueError", d |-> d]
    ELSE LET r == MulLoop(d, scale, <<>>)
         IN  IF r.err = OK THEN r ELSE [err |-> r.err, d |-> d]

\* The loop of __itruediv__ over self._weights.items().
RECURSIVE DivLoop(_, _, _)
DivLoop(items, scale, scaled) ==
    IF items = <<>> THEN [err |-> OK, d |-> scaled]
    ELSE LET key == Head(items)[1]
             new_weight == FDiv(Head(items)[2], scale)
         IN  IF FEq(new_weight, 0) THEN DivLoop(Tail(items), scale, scaled)
             ELSE IF InInfNan(new_weight) THEN [err |-> "OverflowError", d |-> scaled]
             ELSE DivLoop(Tail(items), scale, SetItem(scaled, key, new_weight))

\* __itruediv__
ITrueDivOp(d, scale) ==
    IF FEq(scale, 0) THEN [err |-> "ZeroDivisionError", d |-> d]
    ELSE IF FLt(scale, 0) THEN [err |-> "ValueError", d |-> d]
    ELSE LET r == DivLoop(d, scale, <<>>)
         IN  IF r.err = OK THEN r ELSE [err |-> r.err, d |-> d]

\* add with `=` in place of `+=` for a key that is present.
AddOpOverwrite(d, key, weight) ==
    IF FLt(weight, 0) THEN [err |-> "ValueError", d |-> d]
    ELSE IF FEq(weight, 0) THEN [err |-> OK, d |-> d]
    ELSE [err |-> OK, d |-> SetItem(d, key, weight)]

\* add
AddOp(d, key, weight) ==
    IF FLt(weight, 0) THEN [err |-> "ValueError", d |-> d]
    ELSE IF FEq(weight, 0) THEN [err |-> OK, d |-> d]
    ELSE IF HasKey(d, key)
         THEN [err |-> OK, d |-> SetItem(d, key, FAdd(GetItem(d, key), weight))]
         ELSE [err |-> OK, d |-> SetItem(d, key, weight)]

\* oversize_keys with the comparison turned round.
OversizeKeysBelow(d, limit) ==
    SelectSeq(d, LAMBDA item : FLt(item[2], limit))

\* oversize_keys of clamp
OversizeKeys(d, limit) ==
    SelectSeq(d, LAMBDA item : FGt(item[2], limit))

RECURSIVE ClampLoop(_, _, _)
ClampLoop(d, oversize, limit) ==
    IF oversize = <<>> THEN d
    ELSE ClampLoop(SetItem(d, Head(oversize)[1], limit), Tail(oversize), limit)

\* clamp
ClampOp(d, limit) ==
    IF FEq(limit, 0) THEN [err |-> "ValueError", d |-> d]
    ELSE IF FLt(limit, 0) THEN [err |-> "ValueError", d |-> d]
    ELSE [err |-> OK, d |-> ClampLoop(d, OversizeKeys(d, limit), limit)]

ReverseSeq(s) == [i \in 1..Len(s) |-> s[Len(s) + 1 - i]]

\* The comparison sorted() makes: item x sorts before item y.
ItemLt(x, y) == FLt(x[2], y[2])

\* list.sort's count_run: the length of the run the list starts with.
RECURSIVE RunEnd(_, _, _)
RunEnd(s, n, descending) ==
    IF n = Len(s) THEN n
    ELSE IF ItemLt(s[n + 1], s[n]) = descending THEN RunEnd(s, n + 1, descending)
    ELSE n

\* list.sort's binarysort: where in s[lo..hi-1] the pivot goes.
RECURSIVE BinSearch(_, _, _, _)
BinSearch(s, pivot, l, r) ==
    IF l >= r THEN l
    ELSE LET p == l + ((r - l) \div 2)
         IN  IF ItemLt(pivot, s[p]) THEN BinSearch(s, pivot, l, p)
             ELSE BinSearch(s, pivot, p + 1, r)

RECURSIVE BinarySort(_, _)
BinarySort(s, start) ==
    IF start > Len(s) THEN s
    ELSE LET l == BinSearch(s, s[start], 1, start)
             t == [i \in 1..Len(s) |->
                     IF i < l \/ i > start THEN s[i]
                     ELSE IF i = l THEN s[start]
                     ELSE s[i - 1]]
         IN  BinarySort(t, start + 1)

\* list.sort for a list shorter than a merge run: one run, then insertion.
ListSort(s) ==
    IF Len(s) < 2 THEN s
    ELSE LET descending == ItemLt(s[2], s[1])
             n == RunEnd(s, 2, descending)
             run == IF descending
                    THEN [i \in 1..Len(s) |-> IF i <= n THEN s[n + 1 - i] ELSE s[i]]
                    ELSE s
         IN  BinarySort(run, n + 1)

\* sorted(items, key=itemgetter(1), reverse=True): reverse, sort, reverse.
SortedReverse(items) == ReverseSeq(ListSort(ReverseSeq(items)))

\* keys
KeysOp(d) == LET s == SortedReverse(d) IN [i \in 1..Len(s) |-> s[i][1]]

\* max(values): the first value, replaced by each later value that is > it.
RECURSIVE MaxLoop(_, _)
MaxLoop(values, maxval) ==
    IF values = <<>> THEN maxval
    ELSE MaxLoop(Tail(values), IF FGt(Head(values)[2], maxval)
                               THEN Head(values)[2] ELSE maxval)

\* max_weight
MaxWeightOp(d) == IF d = <<>> THEN 0 ELSE MaxLoop(Tail(d), d[1][2])

\* dict.update(other) on d
RECURSIVE DictUpdate(_, _)
DictUpdate(d, other) ==
    IF other = <<>> THEN d
    ELSE DictUpdate(SetItem(d, Head(other)[1], Head(other)[2]), Tail(other))

--------------------------------------------------------------------------
(* Instances and their dictionary objects                                  *)

\* The mapping instance i holds.
Contents(i) == dicts[weights[i]]

Snapshot == [i \in Insts |-> Contents(i)]

\* The identity of a newly created dict that instance i will refer to: one
\* no other instance refers to.
NewDict(i) == SetMin({id \in Insts : \A j \in Insts \ {i} : weights[j] # id})

\* copy that hands its own dict to the new WeightedSet.
CopyDictShared(self, target) == weights[self]

\* copy: the dict of the new WeightedSet, which the name `target` is bound to.
CopyDict(self, target) == NewDict(target)

\* update's inner loop storing ws[key] instead of adding it.
RECURSIVE AddAllOverwrite(_, _, _, _)
AddAllOverwrite(ds, self, ws, keys) ==
    IF keys = <<>> THEN [err |-> OK, ds |-> ds]
    ELSE LET key == Head(keys)
             d == SetItem(ds[weights[self]], key, GetItem(ds[weights[ws]], key))
         IN  AddAllOverwrite([ds EXCEPT ![weights[self]] = d], self, ws, Tail(keys))

\* update's inner loop `for key in ws.keys(): self.add(key, ws[key])` on the
\* dict objects ds; keys is the list ws.keys() returned.
RECURSIVE AddAll(_, _, _, _)
AddAll(ds, self, ws, keys) ==
    IF keys = <<>> THEN [err |-> OK, ds |-> ds]
    ELSE LET key == Head(keys)
             r == AddOp(ds[weights[self]], key, GetItem(ds[weights[ws]], key))
         IN  IF r.err # OK THEN [err |-> r.err, ds |-> ds]
             ELSE AddAll([ds EXCEPT ![weights[self]] = r.d], self, ws, Tail(keys))

\* update's outer loop over others.
RECURSIVE UpdateLoop(_, _, _)
UpdateLoop(ds, self, others) ==
    IF others = <<>> THEN [err |-> OK, ds |-> ds]
    ELSE LET ws == Head(others)
         IN  IF ws \notin Insts THEN [err |-> "TypeError", ds |-> ds]
             ELSE LET r == AddAll(ds, self, ws, KeysOp(ds[weights[ws]]))
                  IN  IF r.err # OK THEN r
                      ELSE UpdateLoop(r.ds, self, Tail(others))

\* update
UpdateOp(self, others) == UpdateLoop(dicts, self, others)

--------------------------------------------------------------------------
(* The state machine: a caller makes one call at a time; `last` records    *)
(* the call that has just been made, with the mappings before it, until    *)
(* the caller takes its result.                                            *)

Idle ==
    [op |-> "idle", self |-> 0, target |-> 0, key |-> "", arg |-> 0,
     others |-> <<>>, err |-> OK, retKeys |-> <<>>, retW |-> 0,
     pre |-> [i \in Insts |-> <<>>]]

Call(op, self, err) == [Idle EXCEPT !.op = op, !.self = self, !.err = err,
                                    !.pre = Snapshot]

Init ==
    /\ weights = [i \in Insts |-> i]
    /\ dicts = [i \in Insts |-> <<>>]
    /\ last = Idle

Add(self, key, weight) ==
    /\ last.op = "idle"
    /\ LET r == AddOp(Contents(self), key, weight)
       IN  /\ dicts' = [dicts EXCEPT ![weights[self]] = r.d]
           /\ last' = [Call("add", self, r.err) EXCEPT !.key = key, !.arg = weight]
    /\ UNCHANGED weights

IMul(self, scale) ==
    /\ last.op = "idle"
    /\ LET r == IMulOp(Contents(self), scale)
       IN  /\ IF r.err = OK
              THEN LET id == NewDict(self)
                   IN  /\ weights' = [weights EXCEPT ![self] = id]
                       /\ dicts' = [dicts EXCEPT ![id] = r.d]
              ELSE UNCHANGED <<weights, dicts>>
           /\ last' = [Call("imul", self, r.err) EXCEPT !.arg = scale]

ITrueDiv(self, scale) ==
    /\ last.op = "idle"
    /\ LET r == ITrueDivOp(Contents(self), scale)
       IN  /\ IF r.err = OK
              THEN LET id == NewDict(self)
                   IN  /\ weights' = [weights EXCEPT ![self] = id]
                       /\ dicts' = [dicts EXCEPT ![id] = r.d]
              ELSE UNCHANGED <<weights, dicts>>
           /\ last' = [Call("itruediv", self, r.err) EXCEPT !.arg = scale]

Clamp(self, limit) ==
    /\ last.op = "idle"
    /\ LET r == ClampOp(Contents(self), limit)
       IN  /\ dicts' = [dicts EXCEPT ![weights[self]] = r.d]
           /\ last' = [Call("clamp", self, r.err) EXCEPT !.arg = limit]
    /\ UNCHANGED weights

GetKeys(self) ==
    /\ last.op = "idle"
    /\ last' = [Call("keys", self, OK) EXCEPT !.retKeys = KeysOp(Contents(self))]
    /\ UNCHANGED <<weights, dicts>>

MaxWeight(self) ==
    /\ last.op = "idle"
    /\ last' = [Call("max_weight", self, OK) EXCEPT
                    !.retW = MaxWeightOp(Contents(self))]
    /\ UNCHANGED <<weights, dicts>>

Copy(self, target) ==
    /\ last.op = "idle"
    /\ self # target
    /\ LET id == CopyDict(self, target)
       IN  /\ weights' = [weights EXCEPT ![target] = id]
           /\ dicts' = [dicts EXCEPT ![id] = DictUpdate(<<>>, Contents(self))]
    /\ last' = [Call("copy", self, OK) EXCEPT !.target = target]

Update(self, others) ==
    /\ last.op = "idle"
    /\ LET r == UpdateOp(self, others)
       IN  /\ dicts' = r.ds
           /\ last' = [Call("update", self, r.err) EXCEPT !.others = others]
    /\ UNCHANGED weights

\* The caller takes the result of the call.
Return ==
    /\ last.op # "idle"
    /\ last' = Idle
    /\ UNCHANGED <<weights, dicts>>

\* Arguments: a negative number, zero, the smallest positive float, 1.0 and
\* the largest finite float.
WeightArgs == {-1, 0, 1, DefaultWeight, MaxFinite}
ScaleArgs == {-1, 0, 1, DefaultWeight, MaxFinite}
LimitArgs == {-1, 0, 1, DefaultWeight, MaxFinite}

\* One WeightedSet over three keys.
Next ==
    \/ \E key \in Keys, weight \in WeightArgs : Add(1, key, weight)
    \/ \E scale \in ScaleArgs : IMul(1, scale)
    \/ \E scale \in ScaleArgs : ITrueDiv(1, scale)
    \/ \E limit \in LimitArgs : Clamp(1, limit)
    \/ GetKeys(1)
    \/ MaxWeight(1)
    \/ Return

Spec == Init /\ [][Next]_vars

\* Two WeightedSets over two keys, copied, mutated and merged into each other.
NextPair ==
    \/ \E self \in Insts, key \in PairKeys, weight \in WeightArgs :
          Add(self, key, weight)
    \/ \E self \in Insts, scale \in ScaleArgs : IMul(self, scale)
    \/ \E self \in Insts, scale \in ScaleArgs : ITrueDiv(self, scale)
    \/ \E self \in Insts, limit \in LimitArgs : Clamp(self, limit)
    \/ \E self \in Insts, target \in Insts : Copy(self, target)
    \/ \E self \in Insts, ws \in Insts : Update(self, <<ws>>)
    \/ Return

SpecPair == Init /\ [][NextPair]_vars

\* The argument lists of update(): WeightedSets and other objects.
OthersLists == UNION {[1..n -> Insts \cup {NotASet}] : n \in 0..MaxOthers}

\* Two WeightedSets over two keys, filled and scaled, and update() called on
\* the first with every list of arguments.
NextUpdate ==
    \/ \E self \in Insts, key \in PairKeys, weight \in WeightArgs \ {-1} :
          Add(self, key, weight)
    \/ \E self \in Insts : IMul(self, 0)
    \/ \E others \in OthersLists : Update(1, others)
    \/ Return

SpecUpdate == Init /\ [][NextUpdate]_vars

--------------------------------------------------------------------------
(* Properties                                                              *)

Pre(i) == last.pre[i]

\* x is the same value as y, or greater than it.
AtLeast(x, y) == x = y \/ FGt(x, y)
Scaling == {"imul", "itruediv"}
Mutations == {"add", "imul", "itruediv", "clamp", "update"}

\* The product or quotient __imul__/__itruediv__ computes for weight w.
Scaled(op, w, scale) == IF op = "imul" THEN FMul(w, scale) ELSE FDiv(w, scale)

\* C1 (invariant I1): every key present in a WeightedSet has a weight that
\* is strictly greater than zero and finite (neither infinite nor NaN).
C1_WeightsPositiveFinite ==
    \A i \in Insts : \A n \in DOMAIN Contents(i) :
        FGt(Contents(i)[n][2], 0) /\ IsFinite(Contents(i)[n][2])

\* C2: add(k, w) fails with ValueError and changes nothing when w < 0,
\* changes nothing when w = 0, and when w > 0 leaves k with weight w if k was
\* absent and old weight + w if k was present, every other key keeping its
\* presence and weight.
C2_AddContract ==
    last.op = "add" =>
        LET pre == Pre(last.self)
            post == Contents(last.self)
            k == last.key
            w == last.arg
        IN  /\ FLt(w, 0) => last.err = "ValueError" /\ post = pre
            /\ FEq(w, 0) => last.err = OK /\ post = pre
            /\ FGt(w, 0) =>
                  /\ last.err = OK
                  /\ HasKey(post, k)
                  /\ GetItem(post, k) =
                        IF HasKey(pre, k) THEN FAdd(GetItem(pre, k), w) ELSE w
                  /\ \A k2 \in Keys \ {k} :
                        /\ HasKey(post, k2) <=> HasKey(pre, k2)
                        /\ HasKey(pre, k2) => GetItem(post, k2) = GetItem(pre, k2)

\* C2 witness: a positive weight was added to a key that was present, beside
\* another key.
C2_Witness ==
    /\ last.op = "add" /\ last.err = OK /\ FGt(last.arg, 0)
    /\ HasKey(Pre(last.self), last.key)
    /\ Len(Pre(last.self)) > 1
    /\ GetItem(Contents(last.self), last.key) # GetItem(Pre(last.self), last.key)

\* C3: a failing *= or /= leaves the mapping as it was; *= with a negative
\* factor fails with ValueError, /= 0 with ZeroDivisionError, /= with a
\* negative divisor with ValueError, and a *= or /= whose result for any key
\* is infinite or NaN fails with OverflowError.
C3_ScalingFailures ==
    last.op \in Scaling =>
        LET pre == Pre(last.self)
            post == Contents(last.self)
            scale == last.arg
        IN  /\ last.err # OK => post = pre
            /\ FLt(scale, 0) => last.err = "ValueError"
            /\ last.op = "itruediv" /\ FEq(scale, 0) =>
                  last.err = "ZeroDivisionError"
            /\ (FGt(scale, 0) \/ (last.op = "imul" /\ FEq(scale, 0))) /\
               (\E n \in DOMAIN pre : ~IsFinite(Scaled(last.op, pre[n][2], scale)))
                  => last.err = "OverflowError"

\* C4: for a factor f >= 0 with no product infinite or NaN, after *= f the
\* set holds exactly the keys whose old weight * f is non-zero, each with
\* weight old weight * f; *= 0 empties the set whatever it held, and *= on an
\* empty set leaves it empty.
C4_ScaleBy ==
    last.op = "imul" /\ FGe(last.arg, 0) =>
        LET pre == Pre(last.self)
            post == Contents(last.self)
            f == last.arg
        IN  /\ (\A n \in DOMAIN pre : IsFinite(FMul(pre[n][2], f))) =>
                  /\ last.err = OK
                  /\ \A k \in Keys :
                        HasKey(post, k) <=>
                            HasKey(pre, k) /\ FMul(GetItem(pre, k), f) # 0
                  /\ \A k \in DictKeys(post) :
                        GetItem(post, k) = FMul(GetItem(pre, k), f)
            /\ FEq(f, 0) => post = <<>>
            /\ pre = <<>> => post = <<>>

\* a.add(k, b[k]) for each k of keys in turn, as a function of a's mapping.
RECURSIVE RepeatedAdd(_, _, _)
RepeatedAdd(a, b, keys) ==
    IF keys = <<>> THEN a
    ELSE RepeatedAdd(AddOp(a, Head(keys), GetItem(b, Head(keys))).d, b, Tail(keys))

\* The mapping of `self` after merging the sets others names, in order.
RECURSIVE MergeAll(_, _, _)
MergeAll(a, self, others) ==
    IF others = <<>> THEN a
    ELSE LET b == IF Head(others) = self THEN a ELSE Pre(Head(others))
         IN  MergeAll(RepeatedAdd(a, b, KeysOp(b)), self, Tail(others))

\* What C5 says of the set update() was called on: a.update(o1, ..., on)
\* with WeightedSet arguments succeeds and leaves a as the repeated adds of
\* each argument's keys(), in the order given, leave it; with one argument b
\* every key of a or b is present with the sum (or the one weight there is);
\* with no argument or empty arguments a is unchanged.
UpdateMerges ==
    LET self == last.self
        pre == Pre(self)
        post == Contents(self)
        others == last.others
    IN  /\ last.err = OK
        /\ post = MergeAll(pre, self, others)
        /\ Len(others) = 1 =>
              LET b == Pre(others[1])
              IN  /\ DictKeys(post) = DictKeys(pre) \cup DictKeys(b)
                  /\ \A k \in DictKeys(post) :
                        GetItem(post, k) =
                            IF HasKey(pre, k) /\ HasKey(b, k)
                            THEN FAdd(GetItem(pre, k), GetItem(b, k))
                            ELSE IF HasKey(pre, k) THEN GetItem(pre, k)
                            ELSE GetItem(b, k)
        /\ (\A n \in DOMAIN others : Pre(others[n]) = <<>>) => post = pre

AllSets(others) == \A n \in DOMAIN others : others[n] \in Insts

\* C5 as stated: update is equivalent to repeated add, and a.update(b)
\* leaves every argument b unchanged.
C5_UpdateIsRepeatedAdd ==
    last.op = "update" /\ AllSets(last.others) =>
        /\ UpdateMerges
        /\ \A n \in DOMAIN last.others :
              Contents(last.others[n]) = Pre(last.others[n])

\* C5 amended: update is equivalent to repeated add, and a.update(b) leaves
\* unchanged every argument b that is another instance than a.
C5_UpdateIsRepeatedAddOfOthers ==
    last.op = "update" /\ AllSets(last.others) =>
        /\ UpdateMerges
        /\ \A i \in Insts \ {last.self} : Contents(i) = Pre(i)

\* C5 witness: two non-empty sets sharing a key were merged, the argument
\* bringing a new key as well.
C5_Witness ==
    /\ last.op = "update" /\ last.err = OK
    /\ Len(last.others) = 2
    /\ \E other \in Insts \ {last.self} :
          /\ last.others[1] = other
          /\ Pre(last.self) # <<>>
          /\ DictKeys(Pre(other)) \cap DictKeys(Pre(last.self)) # {}
          /\ DictKeys(Pre(other)) \ DictKeys(Pre(last.self)) # {}

\* C6: keys() returns each key of the set exactly once and no other key,
\* with the weights of consecutive keys non-increasing, and does not change
\* the set.
C6_KeysSorted ==
    last.op = "keys" =>
        LET pre == Pre(last.self)
            ks == last.retKeys
        IN  /\ Contents(last.self) = pre
            /\ Len(ks) = Len(pre)
            /\ {ks[n] : n \in DOMAIN ks} = DictKeys(pre)
            /\ \A n \in 1..(Len(ks) - 1) :
                  AtLeast(GetItem(pre, ks[n]), GetItem(pre, ks[n + 1]))

\* C7: clamp(limit), limit > 0, sets every weight above limit to limit,
\* leaves every other weight unchanged and adds or removes no key; a second
\* clamp(limit) changes nothing.
C7_Clamp ==
    last.op = "clamp" /\ FGt(last.arg, 0) =>
        LET pre == Pre(last.self)
            post == Contents(last.self)
            limit == last.arg
        IN  /\ last.err = OK
            /\ Len(post) = Len(pre)
            /\ \A n \in DOMAIN pre :
                  /\ post[n][1] = pre[n][1]
                  /\ post[n][2] = IF FGt(pre[n][2], limit) THEN limit ELSE pre[n][2]
            /\ ClampOp(post, limit) = [err |-> OK, d |-> post]

\* C7 witness: a clamp lowered one weight and met another below the limit.
C7_Witness ==
    /\ last.op = "clamp" /\ last.err = OK
    /\ \E n \in DOMAIN Pre(last.self) : FGt(Pre(last.self)[n][2], last.arg)
    /\ \E n \in DOMAIN Pre(last.self) : FLt(Pre(last.self)[n][2], last.arg)
    /\ Contents(last.self) # Pre(last.self)

\* C8: copy() gives a new set with the mapping of the original, and a
\* mutation of one instance leaves the mapping of the other unchanged.
C8_CopyIndependent ==
    /\ last.op = "copy" =>
          /\ Contents(last.target) = Pre(last.self)
          /\ Contents(last.self) = Pre(last.self)
          /\ weights[last.target] # weights[last.self]
    /\ last.op \in Mutations =>
          \A i \in Insts \ {last.self} : Contents(i) = Pre(i)

\* C8 witness: of two instances with the same non-empty mapping, as copy()
\* leaves them, one has been changed by a mutation.
C8_Witness ==
    /\ last.op \in Mutations /\ last.err = OK
    /\ Pre(1) = Pre(2) /\ Len(Pre(1)) = 2
    /\ Contents(last.self) # Pre(last.self)

\* C9: max_weight() returns 0 for the empty set and otherwise the weight of
\* some stored key that is greater than or equal to every stored weight; it
\* never fails and does not change the set.
C9_MaxWeight ==
    last.op = "max_weight" =>
        LET pre == Pre(last.self)
        IN  /\ last.err = OK
            /\ Contents(last.self) = pre
            /\ pre = <<>> => last.retW = 0
            /\ pre # <<>> =>
                  /\ \E n \in DOMAIN pre : pre[n][2] = last.retW
                  /\ \A n \in DOMAIN pre : AtLeast(last.retW, pre[n][2])

\* C10: an update() that fails with TypeError leaves the set as it was
\* before the call.
C10_UpdateTypeErrorAtomic ==
    last.op = "update" /\ last.err = "TypeError" =>
        Contents(last.self) = Pre(last.self)

====
